---- MODULE Spec2Model ----
(***************************************************************************)
(* A model of the retrieval pipeline of RAG_DocsAssistant:                 *)
(*   - utils/document_processor.py : process_pdf (the Chunker)             *)
(*   - rag/retrieval.py            : LocalCrossEncoderReranker             *)
(*   - rag/vector_store.py         : VectorStoreManager (the Index)        *)
(* Text is a sequence of one-character strings.                            *)
(***************************************************************************)
EXTENDS Integers, Sequences, FiniteSets, TLC

VARIABLES
    \* ---- process_pdf (utils/document_processor.py) ----
    file_exists,       \* whether open(file_path) finds a file
    pdf_pages,         \* what page.extract_text() returns for each page of the file
    pc,                \* position in process_pdf
    page_num,          \* number of pages already read by the extraction loop
    pages_content,     \* the Page Mapping: sequence of [text, page]
    full_text,         \* concatenated text
    content_list,      \* sequence of [title, text] pairs
    sec_idx,           \* number of content_list entries already taken
    section_title,     \* stripped title of the section being processed
    chunks,            \* text_splitter.split_text(section_text) of that section
    chunk_i,           \* number of chunks of that section already emitted
    chunk_id_counter,  \* the running chunk id counter
    doc_chunks,        \* chunks built so far (local list)
    returned,          \* value returned to the caller ("none" before return)
    raised,            \* exception propagated to the caller ("none" if none)
    logged,            \* which message process_pdf printed last
    \* ---- LocalCrossEncoderReranker (rag/retrieval.py) ----
    cross_encoder,     \* "unbuilt", "None" (load failed) or "loaded"
    top_n,             \* the reranker's top_n field
    score_of,          \* what the loaded model's predict gives per (query, passage)
    rr_op,             \* last reranker operation
    rr_query,          \* its query argument
    rr_documents,      \* its documents argument
    rr_result,         \* documents it returned ("none" if it returned nothing)
    rr_raised,         \* error it raised ("none" if none)
    predict_calls,     \* number of cross_encoder.predict invocations so far
    \* ---- VectorStoreManager (rag/vector_store.py) ----
    collection,        \* the persisted Chroma collection: sequence of stored records
    next_uuid,         \* source of fresh record ids
    vs_op,             \* last vector store operation
    vs_arg,            \* documents passed to the last add_documents
    vs_out,            \* what the last get_all_documents / get_collection_status gave
    \* ---- Streamlit sessions (ui/streamlit_app.py) ----
    phase,             \* per session: position of its script run
    event,             \* per session: the widget event of the script run under way
    messages,          \* per session: st.session_state.messages
    selected_model,    \* per session: st.session_state.selected_model
    rag_chain,         \* per session: st.session_state.rag_chain
    memory,            \* per session: the ConversationBufferMemory's exchanges
    pending_rerun,     \* per session: st.rerun() was called, the script runs again
    embedding_loads,   \* SentenceTransformerEmbeddings built so far in the process
    cross_encoder_loads, \* CrossEncoder(...) loads attempted so far in the process
    last_query,        \* what the last chat turn that reached a pipeline observed
    ui_op,             \* last step taken by a script run
    runs,              \* script runs started so far
    \* ---- the hybrid retrieval pipeline (rag/retrieval.py, lines 84-118) ----
    fz_op,             \* last step of the pipeline
    fz_lexical,        \* what the BM25 retriever gave for the query searched last
    fz_semantic,       \* what the Chroma retriever gave for it
    fz_fused,          \* the EnsembleRetriever's output for it
    fz_refused,        \* the fusion applied to two copies of fz_fused
    fz_documents,      \* documents gathered over the query variants searched so far
    fz_searched,       \* number of query variants searched so far
    fz_found,          \* what the MultiQueryRetriever handed to the reranker
    \* ---- the console demo (simple_demo.py) ----
    demo_pc,           \* position of the demo run under way ("idle" between runs)
    demo_files,        \* the PDF files in DOCS_DIR
    demo_chain,        \* rag_chain of the run under way
    demo_outcome,      \* how the last finished run ended
    demo_ingested,     \* the add_documents calls of demo runs: file and run number
    demo_runs          \* demo runs started so far

chunkerVars == <<file_exists, pdf_pages, pc, page_num, pages_content, full_text,
                 content_list, sec_idx, section_title, chunks, chunk_i,
                 chunk_id_counter, doc_chunks, returned, raised, logged>>
rerankVars == <<cross_encoder, top_n, score_of, rr_op, rr_query, rr_documents,
                rr_result, rr_raised, predict_calls>>
storeVars == <<collection, next_uuid, vs_op, vs_arg, vs_out>>
uiVars == <<phase, event, messages, selected_model, rag_chain, memory,
            pending_rerun, embedding_loads, cross_encoder_loads, last_query,
            ui_op, runs>>
fusionVars == <<fz_op, fz_lexical, fz_semantic, fz_fused, fz_refused,
                fz_documents, fz_searched, fz_found>>
demoVars == <<demo_pc, demo_files, demo_chain, demo_outcome, demo_ingested,
              demo_runs>>
vars == <<chunkerVars, rerankVars, storeVars, uiVars, fusionVars, demoVars>>

(***************************************************************************)
(* Characters and strings                                                  *)
(***************************************************************************)
NL == "\n"
SP == " "

Upper == {"A","B","C","D","E","F","G","H","I","J","K","L","M",
          "N","O","P","Q","R","S","T","U","V","W","X","Y","Z"}
Digit == {"0","1","2","3","4","5","6","7","8","9"}
\* what Python's str.strip() and the regex class \s treat as white space
Whitespace == {" ", "\n", "\t", "\r"}

\* the character class [A-Z0-9\s\-:] of section_pattern
IsHeaderChar(c) == c \in Upper \cup Digit \cup Whitespace \cup {"-", ":"}

Min(S) == CHOOSE x \in S : \A y \in S : x <= y
Max(S) == CHOOSE x \in S : \A y \in S : x >= y

\* Python's s[a:b] for 1-based inclusive bounds (empty when b < a)
Slice(s, a, b) == IF b < a THEN <<>> ELSE SubSeq(s, a, b)

RECURSIVE FirstInk(_, _)
\* index of the first non-white-space character at or after i (Len(s)+1 if none)
FirstInk(s, i) ==
    IF i > Len(s) THEN i
    ELSE IF s[i] \in Whitespace THEN FirstInk(s, i + 1) ELSE i

RECURSIVE LastInk(_, _)
\* index of the last non-white-space character at or before i (0 if none)
LastInk(s, i) ==
    IF i < 1 THEN 0
    ELSE IF s[i] \in Whitespace THEN LastInk(s, i - 1) ELSE i

\* Python's str.strip()
Strip(s) == Slice(s, FirstInk(s, 1), LastInk(s, Len(s)))

\* Python's `needle in hay` for strings
Contains(hay, needle) ==
    \/ Len(needle) = 0
    \/ \E p \in 1..(Len(hay) - Len(needle) + 1) :
          /\ hay[p] = needle[1]
          /\ hay[p + Len(needle) - 1] = needle[Len(needle)]
          /\ SubSeq(hay, p, p + Len(needle) - 1) = needle

(***************************************************************************)
(* re.split(section_pattern, full_text)                                    *)
(*   section_pattern = (?m)^([A-Z][A-Z0-9\s\-:]{5,})\n                      *)
(***************************************************************************)
HEADER_MIN_TAIL == 5

RECURSIVE RunEnd(_, _)
\* last index of the run of header-class characters that starts at i
\* (i - 1 when t[i] is not in the class)
RunEnd(t, i) ==
    IF i > Len(t) THEN i - 1
    ELSE IF IsHeaderChar(t[i]) THEN RunEnd(t, i + 1) ELSE i - 1

\* A match of section_pattern that starts at p: the index of the newline that
\* ends it, or 0 when there is no match at p.  The class includes the newline,
\* so the greedy {5,} runs over line breaks and backtracks to the last newline
\* of the run that leaves at least five class characters after the first.
HeaderEnd(t, p) ==
    IF ~(p >= 1 /\ p <= Len(t)) THEN 0
    ELSE IF ~(p = 1 \/ t[p - 1] = NL) THEN 0
    ELSE IF t[p] \notin Upper THEN 0
    ELSE LET e  == RunEnd(t, p + 1)
             qs == {q \in (p + 1 + HEADER_MIN_TAIL)..e : t[q] = NL}
         IN  IF qs = {} THEN 0 ELSE Max(qs)

\* start of the leftmost match at or after `from` (0 if none)
FirstHeader(t, from) ==
    LET ps == {p \in from..Len(t) :
                 /\ (p = 1 \/ t[p - 1] = NL)
                 /\ t[p] \in Upper
                 /\ HeaderEnd(t, p) # 0}
    IN  IF ps = {} THEN 0 ELSE Min(ps)

RECURSIVE ReSplitFrom(_, _)
ReSplitFrom(t, from) ==
    LET p == FirstHeader(t, from)
    IN  IF p = 0 THEN << Slice(t, from, Len(t)) >>
        ELSE LET q == HeaderEnd(t, p)
             IN  << Slice(t, from, p - 1), SubSeq(t, p, q - 1) >>
                     \o ReSplitFrom(t, q + 1)

\* [text_before, title1, text1, title2, text2, ...]
ReSplit(t) == ReSplitFrom(t, 1)

Introduction == <<"I","n","t","r","o","d","u","c","t","i","o","n">>
General == <<"G","e","n","e","r","a","l">>

\* each title paired with the text before it instead of the text after it
ContentList_shifted(t) ==
    LET sections == ReSplit(t)
    IN  IF Len(sections) > 1
        THEN [k \in 1..((Len(sections) - 1) \div 2) |->
                 [title |-> sections[2 * k], text |-> sections[2 * k - 1]]]
             \o << [title |-> Introduction, text |-> sections[Len(sections)]] >>
        ELSE << [title |-> General, text |-> t] >>

\* lines 48-54: the (title, content) pairs
ContentList(t) ==
    LET sections == ReSplit(t)
    IN  IF Len(sections) > 1
        THEN << [title |-> Introduction, text |-> sections[1]] >>
             \o [k \in 1..((Len(sections) - 1) \div 2) |->
                    [title |-> sections[2 * k], text |-> sections[2 * k + 1]]]
        ELSE << [title |-> General, text |-> t] >>

(***************************************************************************)
(* RecursiveCharacterTextSplitter(chunk_size=CHUNK_SIZE,                   *)
(*     chunk_overlap=CHUNK_OVERLAP, separators=["\n\n","\n",". "," ",""],  *)
(*     length_function=len), with the library defaults keep_separator=True *)
(*     and strip_whitespace=True                                           *)
(***************************************************************************)
CHUNK_SIZE == 1000
CHUNK_OVERLAP == 200

Separators == << <<NL, NL>>, <<NL>>, <<".", SP>>, <<SP>>, <<>> >>

\* sep occurs in t at index i
OccursAt(t, sep, i) ==
    /\ i >= 1
    /\ i + Len(sep) - 1 <= Len(t)
    /\ \A j \in 1..Len(sep) : t[i + j - 1] = sep[j]

RECURSIVE IsCut(_, _, _)
\* i starts one of the leftmost non-overlapping occurrences of sep that
\* re.split finds (separators here are one or two characters long)
IsCut(t, sep, i) ==
    /\ OccursAt(t, sep, i)
    /\ (Len(sep) = 1 \/ ~IsCut(t, sep, i - 1))

RECURSIVE CutsIn(_, _, _, _)
\* the cut indices in lo..hi, ascending
CutsIn(t, sep, lo, hi) ==
    IF lo > hi THEN <<>>
    ELSE IF lo = hi THEN (IF IsCut(t, sep, lo) THEN <<lo>> ELSE <<>>)
    ELSE LET mid == (lo + hi) \div 2
         IN  CutsIn(t, sep, lo, mid) \o CutsIn(t, sep, mid + 1, hi)

\* _split_text_with_regex(text, separator, keep_separator=True): every piece
\* but the first starts with the separator; empty pieces are dropped
SplitWithSeparator(t, sep) ==
    IF sep = <<>> THEN [i \in 1..Len(t) |-> <<t[i]>>]
    ELSE LET cuts == CutsIn(t, sep, 1, Len(t))
             n    == Len(cuts)
             all  == [k \in 1..(n + 1) |->
                        Slice(t,
                              IF k = 1 THEN 1 ELSE cuts[k - 1],
                              IF k = n + 1 THEN Len(t) ELSE cuts[k] - 1)]
         IN  SelectSeq(all, LAMBDA x : x # <<>>)

RECURSIVE JoinRange(_, _, _, _)
\* jsep.join(docs[lo..hi])
JoinRange(docs, jsep, lo, hi) ==
    IF lo > hi THEN <<>>
    ELSE IF lo = hi THEN docs[lo]
    ELSE LET mid == (lo + hi) \div 2
         IN  JoinRange(docs, jsep, lo, mid) \o jsep \o JoinRange(docs, jsep, mid + 1, hi)

\* separator.join(docs)
JoinWith(docs, jsep) == JoinRange(docs, jsep, 1, Len(docs))

\* _join_docs: the joined, stripped text as a one-element list, or no element
\* when it is empty (None)
JoinDocs(docs, jsep) ==
    LET text == Strip(JoinWith(docs, jsep))
    IN  IF text = <<>> THEN <<>> ELSE <<text>>

RECURSIVE PopOverlap(_, _, _, _)
\* the while loop of _merge_splits: drop leading pieces of current_doc
PopOverlap(cur, total, dlen, slen) ==
    IF \/ total > CHUNK_OVERLAP
       \/ (/\ total + dlen + (IF Len(cur) > 0 THEN slen ELSE 0) > CHUNK_SIZE
           /\ total > 0)
    THEN LET rest == Tail(cur)
             left == total - (Len(cur[1]) + (IF Len(cur) > 1 THEN slen ELSE 0))
         IN  \* the test on left makes the subtraction be computed here
             IF left >= 0 - CHUNK_SIZE
             THEN PopOverlap(rest, left, dlen, slen)
             ELSE [cur |-> rest, total |-> left]
    ELSE [cur |-> cur, total |-> total]

\* one iteration of `for d in splits` of _merge_splits
MergeStep(st, d, jsep) ==
    LET slen == Len(jsep)
        over == st.total + Len(d) + (IF Len(st.cur) > 0 THEN slen ELSE 0) > CHUNK_SIZE
        flushed == IF over /\ Len(st.cur) > 0
                   THEN LET po == PopOverlap(st.cur, st.total, Len(d), slen)
                        IN  [docs |-> st.docs \o JoinDocs(st.cur, jsep),
                             cur |-> po.cur, total |-> po.total]
                   ELSE st
        cur2 == Append(flushed.cur, d)
    IN  [docs |-> flushed.docs, cur |-> cur2,
         total |-> flushed.total + Len(d) + (IF Len(cur2) > 1 THEN slen ELSE 0)]

RECURSIVE MergeFold(_, _, _, _)
MergeFold(st, splits, i, jsep) ==
    IF i > Len(splits) THEN st
    ELSE LET nxt == MergeStep(st, splits[i], jsep)
         IN  \* the test on nxt.total makes the step's value be computed here
             IF nxt.total >= 0 THEN MergeFold(nxt, splits, i + 1, jsep) ELSE nxt

\* _merge_splits(splits, separator)
MergeSplits(splits, jsep) ==
    LET st == MergeFold([docs |-> <<>>, cur |-> <<>>, total |-> 0], splits, 1, jsep)
    IN  st.docs \o JoinDocs(st.cur, jsep)

\* the first separator of seps that is "" or occurs in text (index into seps);
\* the last one when none does
RECURSIVE PickSeparator(_, _, _)
PickSeparator(t, seps, i) ==
    IF i > Len(seps) THEN Len(seps)
    ELSE IF seps[i] = <<>> THEN i
    ELSE IF \E p \in 1..Len(t) : OccursAt(t, seps[i], p) THEN i
    ELSE PickSeparator(t, seps, i + 1)

RECURSIVE SplitTextRec(_, _)
RECURSIVE SplitFold(_, _, _, _)
\* the `for s in splits` loop of _split_text; st = [final, good]
SplitFold(st, splits, i, newSeps) ==
    IF i > Len(splits)
    THEN IF st.good # <<>> THEN st.final \o MergeSplits(st.good, <<>>) ELSE st.final
    ELSE LET s == splits[i]
         IN  IF Len(s) < CHUNK_SIZE
             THEN SplitFold([final |-> st.final, good |-> Append(st.good, s)],
                            splits, i + 1, newSeps)
             ELSE LET merged == IF st.good # <<>>
                                THEN st.final \o MergeSplits(st.good, <<>>)
                                ELSE st.final
                      deeper == IF newSeps = <<>> THEN <<s>>
                                ELSE SplitTextRec(s, newSeps)
                  IN  SplitFold([final |-> merged \o deeper, good |-> <<>>],
                                splits, i + 1, newSeps)

\* _split_text(text, separators)
SplitTextRec(t, seps) ==
    LET k       == PickSeparator(t, seps, 1)
        sep     == seps[k]
        found   == sep # <<>>  /\ \E p \in 1..Len(t) : OccursAt(t, sep, p)
        newSeps == IF found THEN Slice(seps, k + 1, Len(seps)) ELSE <<>>
    IN  SplitFold([final |-> <<>>, good |-> <<>>],
                  SplitWithSeparator(t, sep), 1, newSeps)

\* text_splitter.split_text(section_text)
SplitText(t) == SplitTextRec(t, Separators)

(***************************************************************************)
(* process_pdf: values                                                     *)
(***************************************************************************)
\* a Python value that is an int or a str (metadata["page"] is either)
PyInt(n) == <<"int", n>>
PyStr(str) == <<"str", str>>
NA == PyStr(<<"N","/","A">>)

RECURSIVE Decimal(_)
\* str(n) for n >= 0
Decimal(n) ==
    LET d == <<"0","1","2","3","4","5","6","7","8","9">>[(n % 10) + 1]
    IN  IF n < 10 THEN <<d>> ELSE Append(Decimal(n \div 10), d)

\* f"chunk_{chunk_id_counter}"
ChunkIdStr(n) == <<"c","h","u","n","k","_">> \o Decimal(n)

\* os.path.basename(file_path) of the one path the model processes
FileName == <<"p","o","l","i","c","y",".","p","d","f">>

PAGE_PROBE_LEN == 50

\* Python's s[:k] for k >= 0
Prefix(str, k) == Slice(str, 1, IF k < Len(str) THEN k ELSE Len(str))

\* line 77: chunk_text[:max(50, len(chunk_text))]
ProbeLen(chunk_text) ==
    IF PAGE_PROBE_LEN >= Len(chunk_text) THEN PAGE_PROBE_LEN ELSE Len(chunk_text)

LeadingText(chunk_text) == Prefix(chunk_text, ProbeLen(chunk_text))

RECURSIVE PageScan(_, _, _)
\* lines 74-79: the first page of the mapping whose text contains the probe
PageScan(probe, mapping, i) ==
    IF i > Len(mapping) THEN NA
    ELSE IF Contains(mapping[i].text, probe) THEN PyInt(mapping[i].page)
    ELSE PageScan(probe, mapping, i + 1)

\* the scan without its break: the last page that contains the probe wins
PageOf_lastHit(chunk_text, mapping) ==
    LET hits == {k \in 1..Len(mapping) :
                    Contains(mapping[k].text, LeadingText(chunk_text))}
    IN  IF hits = {} THEN NA ELSE PyInt(mapping[Max(hits)].page)

PageOf(chunk_text, mapping) == PageScan(LeadingText(chunk_text), mapping, 1)

\* the id taken from the section's own loop index
ChunkId_perSection(counter, i) == ChunkIdStr(i)

\* line 84: the id of the chunk built when the counter is `counter` and the
\* chunk is the i-th (from 0) of its section
ChunkId(counter, i) == ChunkIdStr(counter)

\* lines 81-89
MakeChunk(chunk_text, page, chunk_id, title) ==
    [page_content |-> chunk_text,
     metadata |-> [source |-> FileName, page |-> page,
                   chunk_id |-> chunk_id, section |-> title]]

\* line 67: `not section_text.strip()`
IsBlank(section_text) == Strip(section_text) = <<>>

\* lines 66-70: the chunks a content_list entry gives (none when it is skipped)
SectionChunks(section_text) ==
    IF IsBlank(section_text) THEN <<>> ELSE SplitText(section_text)

(***************************************************************************)
(* process_pdf: the documents the model reads                              *)
(***************************************************************************)
\* a page whose extract_text() gives "" (a scanned image)
NoText == <<>>

\* a page whose extract_text() gives white space only
BlankPage == <<SP, NL>>

\* "welcome to the plan. this summary describes the group policy terms."
IntroPage ==
    <<"w","e","l","c","o","m","e"," ","t","o"," ","t","h","e"," ","p","l",
      "a","n","."," ","t","h","i","s"," ","s","u","m","m","a","r","y"," ",
      "d","e","s","c","r","i","b","e","s"," ","t","h","e"," ","g","r","o",
      "u","p"," ","p","o","l","i","c","y"," ","t","e","r","m","s",".">>

\* "ELIGIBILITY REQUIREMENTS\nyou must work 30 hours per week.\n\n
\*  a waiting period of 90 days applies."
EligPage ==
    <<"E","L","I","G","I","B","I","L","I","T","Y"," ","R","E","Q","U","I",
      "R","E","M","E","N","T","S","\n","y","o","u"," ","m","u","s","t"," ",
      "w","o","r","k"," ","3","0"," ","h","o","u","r","s"," ","p","e","r",
      " ","w","e","e","k",".","\n","\n","a"," ","w","a","i","t","i","n","g",
      " ","p","e","r","i","o","d"," ","o","f"," ","9","0"," ","d","a","y",
      "s"," ","a","p","p","l","i","e","s",".">>

\* "SECTION 1: DEFINITIONS" (the page ends right after the header line)
HeaderOnlyPage ==
    <<"S","E","C","T","I","O","N"," ","1",":"," ","D","E","F","I","N","I",
      "T","I","O","N","S">>

\* n characters of prose: seven-letter words of the letter c, a sentence
\* ("." then a space) every 40 characters
Prose(c, n) ==
    [i \in 1..n |-> IF i % 40 = 39 THEN "." ELSE IF i % 8 = 0 THEN SP ELSE c]

LongParagraphLen == 1100
ShortParagraphLen == 150

\* a paragraph longer than CHUNK_SIZE, a blank line, a short paragraph
LongPage == Prose("a", LongParagraphLen) \o <<NL, NL>> \o Prose("b", ShortParagraphLen)

PageTexts == {NoText, BlankPage, IntroPage, EligPage, HeaderOnlyPage, LongPage}

MaxPages == 2

SeqsUpTo(S, n) == UNION {[1..k -> S] : k \in 0..n}

Documents == SeqsUpTo(PageTexts, MaxPages)

(***************************************************************************)
(* process_pdf: the steps                                                  *)
(***************************************************************************)
InitChunker ==
    /\ file_exists \in BOOLEAN
    /\ pdf_pages \in Documents
    /\ (~file_exists => pdf_pages = <<>>)
    /\ pc = "start"
    /\ page_num = 0
    /\ pages_content = <<>>
    /\ full_text = <<>>
    /\ content_list = <<>>
    /\ sec_idx = 0
    /\ section_title = <<>>
    /\ chunks = <<>>
    /\ chunk_i = 0
    /\ chunk_id_counter = 0
    /\ doc_chunks = <<>>
    /\ returned = <<>>
    /\ raised = "none"
    /\ logged = "processing"

\* the handler lets the error through
OnFileNotFound_raises ==
    /\ logged' = "file_not_found"
    /\ returned' = <<>>
    /\ raised' = "FileNotFoundError"
    /\ pc' = "done"

\* lines 95-97: except FileNotFoundError
OnFileNotFound ==
    /\ logged' = "file_not_found"
    /\ returned' = <<>>
    /\ raised' = "none"
    /\ pc' = "done"

\* the handler returns what was built before the error
OnException_partial ==
    /\ logged' = "unexpected_error"
    /\ returned' = doc_chunks
    /\ raised' = "none"
    /\ pc' = "done"

\* lines 98-100: except Exception
OnException ==
    /\ logged' = "unexpected_error"
    /\ returned' = <<>>
    /\ raised' = "none"
    /\ pc' = "done"

\* a document that gave no chunk is treated as an error
OnReturn_raisesOnEmpty ==
    /\ logged' = IF doc_chunks = <<>> THEN "unexpected_error" ELSE "processed"
    /\ returned' = doc_chunks
    /\ raised' = IF doc_chunks = <<>> THEN "ValueError" ELSE "none"
    /\ pc' = "done"

\* lines 92-93: the normal return
OnReturn ==
    /\ logged' = "processed"
    /\ returned' = doc_chunks
    /\ raised' = "none"
    /\ pc' = "done"

\* lines 27-32: open(file_path, 'rb') and PdfReader(file)
OpenFile ==
    /\ pc = "start"
    /\ IF file_exists
       THEN /\ pc' = "extract"
            /\ UNCHANGED <<returned, raised, logged>>
       ELSE OnFileNotFound
    /\ UNCHANGED <<file_exists, pdf_pages, page_num, pages_content, full_text,
                   content_list, sec_idx, section_title, chunks, chunk_i,
                   chunk_id_counter, doc_chunks>>
    /\ UNCHANGED <<rerankVars, storeVars, uiVars, fusionVars, demoVars>>

\* lines 33-37: one iteration of the extraction loop
ExtractPage ==
    /\ pc = "extract"
    /\ page_num < Len(pdf_pages)
    /\ LET text == pdf_pages[page_num + 1]
       IN  IF text # <<>>
           THEN /\ pages_content' =
                      Append(pages_content, [text |-> text, page |-> page_num + 1])
                /\ full_text' = full_text \o text \o <<NL>>
           ELSE UNCHANGED <<pages_content, full_text>>
    /\ page_num' = page_num + 1
    /\ UNCHANGED <<file_exists, pdf_pages, pc, content_list, sec_idx,
                   section_title, chunks, chunk_i, chunk_id_counter, doc_chunks,
                   returned, raised, logged>>
    /\ UNCHANGED <<rerankVars, storeVars, uiVars, fusionVars, demoVars>>

\* lines 43-63: split into sections, build the splitter, reset the counter
SplitSections ==
    /\ pc = "extract"
    /\ page_num = Len(pdf_pages)
    /\ content_list' = ContentList(full_text)
    /\ chunk_id_counter' = 0
    /\ sec_idx' = 0
    /\ pc' = "sections"
    /\ UNCHANGED <<file_exists, pdf_pages, page_num, pages_content, full_text,
                   section_title, chunks, chunk_i, doc_chunks,
                   returned, raised, logged>>
    /\ UNCHANGED <<rerankVars, storeVars, uiVars, fusionVars, demoVars>>

\* lines 65-70: take the next (title, text) pair
NextSection ==
    /\ pc = "sections"
    /\ sec_idx < Len(content_list)
    /\ LET entry == content_list[sec_idx + 1]
           cs    == SectionChunks(entry.text)
       IN  /\ section_title' = Strip(entry.title)
           /\ chunks' = cs
           /\ pc' = IF cs = <<>> THEN "sections" ELSE "chunks"
    /\ chunk_i' = 0
    /\ sec_idx' = sec_idx + 1
    /\ UNCHANGED <<file_exists, pdf_pages, page_num, pages_content, full_text,
                   content_list, chunk_id_counter, doc_chunks,
                   returned, raised, logged>>
    /\ UNCHANGED <<rerankVars, storeVars, uiVars, fusionVars, demoVars>>

\* lines 72-90: one iteration of the chunk loop
EmitChunk ==
    /\ pc = "chunks"
    /\ chunk_i < Len(chunks)
    /\ LET chunk_text == chunks[chunk_i + 1]
           page       == PageOf(chunk_text, pages_content)
       IN  doc_chunks' = Append(doc_chunks,
                                MakeChunk(chunk_text, page,
                                          ChunkId(chunk_id_counter, chunk_i),
                                          section_title))
    /\ chunk_id_counter' = chunk_id_counter + 1
    /\ chunk_i' = chunk_i + 1
    /\ pc' = IF chunk_i + 1 = Len(chunks) THEN "sections" ELSE "chunks"
    /\ UNCHANGED <<file_exists, pdf_pages, page_num, pages_content, full_text,
                   content_list, sec_idx, section_title, chunks,
                   returned, raised, logged>>
    /\ UNCHANGED <<rerankVars, storeVars, uiVars, fusionVars, demoVars>>

\* lines 92-93: all sections done
ReturnChunks ==
    /\ pc = "sections"
    /\ sec_idx = Len(content_list)
    /\ OnReturn
    /\ UNCHANGED <<file_exists, pdf_pages, page_num, pages_content, full_text,
                   content_list, sec_idx, section_title, chunks, chunk_i,
                   chunk_id_counter, doc_chunks>>
    /\ UNCHANGED <<rerankVars, storeVars, uiVars, fusionVars, demoVars>>

\* lines 26-100: any statement of the try block raises an Exception (a broken
\* PDF in PdfReader, a page whose extract_text() fails, ...)
ExtractionError ==
    /\ pc \in {"extract", "sections", "chunks"}
    /\ OnException
    /\ UNCHANGED <<file_exists, pdf_pages, page_num, pages_content, full_text,
                   content_list, sec_idx, section_title, chunks, chunk_i,
                   chunk_id_counter, doc_chunks>>
    /\ UNCHANGED <<rerankVars, storeVars, uiVars, fusionVars, demoVars>>

NextChunker ==
    \/ OpenFile
    \/ ExtractPage
    \/ SplitSections
    \/ NextSection
    \/ EmitChunk
    \/ ReturnChunks
    \/ ExtractionError

(***************************************************************************)
(* LocalCrossEncoderReranker (rag/retrieval.py)                            *)
(***************************************************************************)
TOP_N == 4

MaxCandidates == 5

\* the query reaches the reranker only through the scores predict gives to
\* its pairs, and those range over every function of score_of
Queries == {"q1"}
Passages == {<<"a">>, <<"b">>}
\* relevance scores: only their order matters to the reranker, and two values
\* give two passages every order and the tie
Scores == {0, 1}

\* retrieved documents: two with the same text and different chunk ids, one other
Candidates ==
    {[page_content |-> <<"a">>, chunk_id |-> ChunkIdStr(0)],
     [page_content |-> <<"a">>, chunk_id |-> ChunkIdStr(1)],
     [page_content |-> <<"b">>, chunk_id |-> ChunkIdStr(2)]}

CandidateLists == SeqsUpTo(Candidates, MaxCandidates)

InitRerank ==
    /\ cross_encoder = "unbuilt"
    /\ top_n = TOP_N
    /\ score_of = [qp \in Queries \X Passages |-> 0]
    /\ rr_op = "none"
    /\ rr_query = "q1"
    /\ rr_documents = <<>>
    /\ rr_result = <<>>
    /\ rr_raised = "none"
    /\ predict_calls = 0

\* lines 42-51: __init__; CrossEncoder(...) either loads or raises, and the
\* except clause leaves cross_encoder as None
RerankerInit(n, loads, model) ==
    /\ cross_encoder = "unbuilt"
    /\ top_n' = n
    /\ IF loads
       THEN /\ cross_encoder' = "loaded"
            /\ score_of' = model
       ELSE /\ cross_encoder' = "None"
            /\ UNCHANGED score_of
    /\ rr_op' = "init"
    /\ UNCHANGED <<rr_query, rr_documents, rr_result, rr_raised, predict_calls>>
    /\ UNCHANGED <<chunkerVars, storeVars, uiVars, fusionVars, demoVars>>

RECURSIVE InsertDesc_unstable(_, _)
\* x placed in front of the elements whose score equals its own
InsertDesc_unstable(sorted, x) ==
    IF sorted = <<>> THEN <<x>>
    ELSE IF Head(sorted).score > x.score
         THEN <<Head(sorted)>> \o InsertDesc_unstable(Tail(sorted), x)
         ELSE <<x>> \o sorted

RECURSIVE InsertDesc(_, _)
\* x placed behind every element whose score is >= its own
InsertDesc(sorted, x) ==
    IF sorted = <<>> THEN <<x>>
    ELSE IF Head(sorted).score >= x.score
         THEN <<Head(sorted)>> \o InsertDesc(Tail(sorted), x)
         ELSE <<x>> \o sorted

RECURSIVE SortedDescFrom(_, _, _)
SortedDescFrom(pairs, i, acc) ==
    IF i > Len(pairs) THEN acc
    ELSE SortedDescFrom(pairs, i + 1, InsertDesc(acc, pairs[i]))

\* the sort left out: the pairs in input order
SortedDesc_unsorted(pairs) == pairs

\* line 68: sorted(zip(doc_list, scores), key=lambda x: x[1], reverse=True);
\* Python's sort is stable, also with reverse=True
SortedDesc(pairs) == SortedDescFrom(pairs, 1, <<>>)

\* line 66: cross_encoder.predict([(query, passage) ...])
Predict(model, query, passages) ==
    [i \in 1..Len(passages) |-> model[<<query, passages[i]>>]]

\* lines 62-70 with a loaded model
Rerank(model, n, documents, query) ==
    LET passages == [i \in 1..Len(documents) |-> documents[i].page_content]
        scores   == Predict(model, query, passages)
        pairs    == [i \in 1..Len(documents) |->
                       [doc |-> documents[i], score |-> scores[i]]]
        ranked   == SortedDesc(pairs)
        kept     == Prefix(ranked, n)
    IN  [i \in 1..Len(kept) |-> kept[i].doc]

\* the empty-input test left out
IsEmptyInput_never(documents) == FALSE

\* lines 56-57: `if not documents: return []`
IsEmptyInput(documents) == documents = <<>>

\* the missing-model test left out: the unloaded reranker serves the candidates
ModelMissing_never(ce) == FALSE

\* lines 59-60: `if self.cross_encoder is None: raise RuntimeError(...)`
ModelMissing(ce) == ce = "None"

\* lines 53-70: compress_documents
CompressEffect(documents, query) ==
    /\ rr_documents' = documents
    /\ rr_query' = query
    /\ IF IsEmptyInput(documents)
       THEN /\ rr_result' = <<>>
            /\ rr_raised' = "none"
            /\ UNCHANGED predict_calls
       ELSE IF ModelMissing(cross_encoder)
       THEN /\ rr_result' = <<>>
            /\ rr_raised' = "RuntimeError"
            /\ UNCHANGED predict_calls
       ELSE /\ rr_result' = Rerank(score_of, top_n, documents, query)
            /\ rr_raised' = "none"
            /\ predict_calls' = predict_calls + 1
    /\ UNCHANGED <<cross_encoder, top_n, score_of>>

\* one call per behaviour: a call leaves the reranker's fields as they are
CompressDocuments(documents, query) ==
    /\ rr_op = "init"
    /\ rr_op' = "compress_documents"
    /\ CompressEffect(documents, query)
    /\ UNCHANGED <<chunkerVars, storeVars, uiVars, fusionVars, demoVars>>

\* lines 115-118: the ContextualCompressionRetriever's retrieve: `found` is
\* what the base retriever gave; the compressor is called only when it is
\* not empty
RetrieveEffect(found, query) ==
    IF found # <<>>
    THEN CompressEffect(found, query)
    ELSE /\ rr_documents' = found
         /\ rr_query' = query
         /\ rr_result' = <<>>
         /\ rr_raised' = "none"
         /\ UNCHANGED <<cross_encoder, top_n, score_of, predict_calls>>

Retrieve(found, query) ==
    /\ rr_op = "init"
    /\ rr_op' = "retrieve"
    /\ RetrieveEffect(found, query)
    /\ UNCHANGED <<chunkerVars, storeVars, uiVars, fusionVars, demoVars>>

NextRerank ==
    \/ \E n \in 1..TOP_N, loads \in BOOLEAN, model \in [Queries \X Passages -> Scores] :
          RerankerInit(n, loads, model)
    \/ \E documents \in CandidateLists, query \in Queries :
          CompressDocuments(documents, query)
    \/ \E found \in CandidateLists, query \in Queries :
          Retrieve(found, query)

(***************************************************************************)
(* VectorStoreManager (rag/vector_store.py)                                *)
(***************************************************************************)
MaxStored == 4
MaxAdd == 2

CollectionName == "zurich_policy_s655"

\* chunks as process_pdf builds them; the first two are one document's
StoreChunks ==
    {MakeChunk(<<"a">>, PyInt(1), ChunkIdStr(0), General),
     MakeChunk(<<"b">>, NA, ChunkIdStr(1), General),
     MakeChunk(<<"a">>, PyInt(1), ChunkIdStr(0), Introduction)}

ChunkLists == SeqsUpTo(StoreChunks, MaxAdd)

InitStore ==
    /\ collection = <<>>
    /\ next_uuid = 1
    /\ vs_op = "init"
    /\ vs_arg = <<>>
    /\ vs_out = <<>>

\* Chroma.add_documents: every document is stored under a fresh uuid4 id
\* with its text and metadata
StoredRecords(documents, first_id) ==
    [i \in 1..Len(documents) |->
        [id |-> first_id + i - 1,
         document |-> documents[i].page_content,
         metadata |-> documents[i].metadata]]

\* documents whose chunk_id is already stored are not stored again
AfterAdd_dedup(stored, documents, first_id) ==
    LET known == {stored[i].metadata.chunk_id : i \in 1..Len(stored)}
        fresh == SelectSeq(documents, LAMBDA d : d.metadata.chunk_id \notin known)
    IN  stored \o StoredRecords(fresh, first_id)

\* lines 47-58: the collection after add_documents(documents)
AfterAdd(stored, documents, first_id) ==
    IF documents = <<>> THEN stored
    ELSE stored \o StoredRecords(documents, first_id)

AddDocuments(documents) ==
    /\ Len(collection) + Len(documents) <= MaxStored
    /\ collection' = AfterAdd(collection, documents, next_uuid)
    /\ next_uuid' = IF documents = <<>> THEN next_uuid ELSE next_uuid + Len(documents)
    /\ vs_op' = "add_documents"
    /\ vs_arg' = documents
    /\ vs_out' = <<>>
    /\ UNCHANGED <<chunkerVars, rerankVars, uiVars, fusionVars, demoVars>>

\* lines 60-67
CollectionStatus(stored) == [name |-> CollectionName, count |-> Len(stored)]

GetCollectionStatus ==
    /\ vs_op' = "get_collection_status"
    /\ vs_out' = CollectionStatus(collection)
    /\ UNCHANGED <<collection, next_uuid, vs_arg>>
    /\ UNCHANGED <<chunkerVars, rerankVars, uiVars, fusionVars, demoVars>>

\* lines 69-84: vector_store.get(include=["metadatas", "documents"]) and the
\* Document built from each entry
AllDocuments(stored) ==
    LET all_data == [documents |-> [i \in 1..Len(stored) |-> stored[i].document],
                     metadatas |-> [i \in 1..Len(stored) |-> stored[i].metadata]]
    IN  [i \in 1..Len(all_data.documents) |->
            [page_content |-> all_data.documents[i],
             metadata |-> all_data.metadatas[i]]]

GetAllDocuments ==
    /\ vs_op' = "get_all_documents"
    /\ vs_out' = AllDocuments(collection)
    /\ UNCHANGED <<collection, next_uuid, vs_arg>>
    /\ UNCHANGED <<chunkerVars, rerankVars, uiVars, fusionVars, demoVars>>

NextStore ==
    \/ \E documents \in ChunkLists : AddDocuments(documents)
    \/ GetCollectionStatus
    \/ GetAllDocuments

(***************************************************************************)
(* Hybrid fusion: the EnsembleRetriever of rag/retrieval.py lines 97-101,   *)
(* weights [0.5, 0.5], which merges the result lists of its retrievers by   *)
(* weighted reciprocal rank: a document's text collects weight / (rank + c) *)
(* from every place it holds in a list, the documents of all lists are      *)
(* deduplicated by text (first one seen is kept) and sorted by descending   *)
(* score with Python's stable sort.                                         *)
(***************************************************************************)
MaxResults == 3

\* the constant c of the reciprocal rank formula (EnsembleRetriever's default)
RRF_C == 60

\* weights=[0.5, 0.5] as fractions
Weights == << [num |-> 1, den |-> 2], [num |-> 1, den |-> 2] >>

\* chunks of the Index: two with the same text and different chunk ids
FusionDocs ==
    {MakeChunk(<<"a">>, PyInt(1), ChunkIdStr(0), General),
     MakeChunk(<<"a">>, PyInt(2), ChunkIdStr(1), General),
     MakeChunk(<<"b">>, PyInt(2), ChunkIdStr(2), General),
     MakeChunk(<<"c">>, NA, ChunkIdStr(3), General)}

\* a retriever's result: documents of the Index, none of them twice
ResultLists ==
    {l \in SeqsUpTo(FusionDocs, MaxResults) :
        \A i, j \in 1..Len(l) : i # j => l[i] # l[j]}

\* ranks a document can hold in a list that is fused
FusionRanks == 1..Max({MaxResults, Cardinality(FusionDocs)})

RECURSIVE ProductOver(_)
ProductOver(S) ==
    IF S = {} THEN 1
    ELSE LET x == Max(S) IN x * ProductOver(S \ {x})

\* scores are kept exact, as multiples of 1 / ScoreScale
ScoreScale == 2 * ProductOver({r + RRF_C : r \in FusionRanks})

\* weight / (rank + c)
RankScore(weight, rank) == (weight.num * ScoreScale) \div (weight.den * (rank + RRF_C))

RECURSIVE SumRanks(_, _, _, _)
\* what the places key holds in doc_list from rank i on add to its score
SumRanks(doc_list, weight, key, i) ==
    IF i > Len(doc_list) THEN 0
    ELSE (IF doc_list[i].page_content = key THEN RankScore(weight, i) ELSE 0)
         + SumRanks(doc_list, weight, key, i + 1)

\* rrf_score[key] after both loops
RrfScore(doc_lists, key) ==
    SumRanks(doc_lists[1], Weights[1], key, 1)
        + SumRanks(doc_lists[2], Weights[2], key, 1)

\* every document is kept, also one whose text came before
UniqueByKey_keepAll(docs) == docs

\* unique_by_key(all_docs, lambda doc: doc.page_content): the first document
\* of every text, in order
UniqueByKey(docs) ==
    LET firsts == {i \in 1..Len(docs) :
                     \A j \in 1..(i - 1) : docs[j].page_content # docs[i].page_content}
        Nth(k) == CHOOSE i \in firsts : Cardinality({j \in firsts : j <= i}) = k
    IN  [k \in 1..Cardinality(firsts) |-> docs[Nth(k)]]

\* EnsembleRetriever.weighted_reciprocal_rank on the lists of two retrievers
WeightedReciprocalRank(doc_lists) ==
    LET all_docs == doc_lists[1] \o doc_lists[2]
        uniq     == UniqueByKey(all_docs)
        pairs    == [i \in 1..Len(uniq) |->
                       [doc |-> uniq[i],
                        score |-> RrfScore(doc_lists, uniq[i].page_content)]]
        ranked   == SortedDesc(pairs)
    IN  [i \in 1..Len(ranked) |-> ranked[i].doc]

InitFusion ==
    /\ fz_op = "init"
    /\ fz_lexical \in ResultLists
    /\ fz_semantic \in ResultLists
    /\ fz_fused = <<>>
    /\ fz_refused = <<>>
    /\ fz_documents = <<>>
    /\ fz_searched = 0
    /\ fz_found = <<>>

\* the EnsembleRetriever fuses the two result lists
Fuse ==
    /\ fz_op = "init"
    /\ fz_fused' = WeightedReciprocalRank(<<fz_lexical, fz_semantic>>)
    /\ fz_op' = "fused"
    /\ UNCHANGED <<fz_lexical, fz_semantic, fz_refused, fz_documents,
                   fz_searched, fz_found>>
    /\ UNCHANGED <<chunkerVars, rerankVars, storeVars, uiVars, demoVars>>

\* the fusion applied to its own output, taken as both result lists
Refuse ==
    /\ fz_op = "fused"
    /\ fz_refused' = WeightedReciprocalRank(<<fz_fused, fz_fused>>)
    /\ fz_op' = "refused"
    /\ UNCHANGED <<fz_lexical, fz_semantic, fz_fused, fz_documents,
                   fz_searched, fz_found>>
    /\ UNCHANGED <<chunkerVars, rerankVars, storeVars, uiVars, demoVars>>

NextFusion == Fuse \/ Refuse

(***************************************************************************)
(* The retrieval of one question through the pipeline of                   *)
(* get_advanced_retriever (rag/retrieval.py lines 84-118): the reranker is  *)
(* built, the MultiQueryRetriever searches each rephrased question with    *)
(* the EnsembleRetriever, gathers the results and drops repeated           *)
(* documents, and the ContextualCompressionRetriever hands what was found  *)
(* to the reranker.                                                        *)
(***************************************************************************)
\* what the language model does with the expansion prompt of the
\* MultiQueryRetriever: it cannot be reached, it answers with no usable line,
\* or it answers with rephrased questions
Expansions == {"unavailable", "none", "some"}
Rephrased == <<"v1", "v2", "v3">>

\* lines 86 and 95: k of both retrievers
RETRIEVER_K == 10

\* the Index of the retrieval: the chunks the score model knows the text of
PipelineIndex == {d \in FusionDocs : d.page_content \in Passages}

\* BM25 returns the k best documents of its corpus whatever their score, and
\* Chroma the k nearest: of a corpus of at most k documents both return all,
\* in some order
RetrieverResults(corpus) ==
    LET n == Min({RETRIEVER_K, Cardinality(corpus)})
    IN  {l \in [1..n -> corpus] : \A i, j \in 1..n : i # j => l[i] # l[j]}

\* MultiQueryRetriever.unique_union: a document equal to an earlier one is
\* dropped (equal text and equal metadata)
UniqueUnion(documents) ==
    LET firsts == {i \in 1..Len(documents) :
                     \A j \in 1..(i - 1) : documents[j] # documents[i]}
        Nth(k) == CHOOSE i \in firsts : Cardinality({j \in firsts : j <= i}) = k
    IN  [k \in 1..Cardinality(firsts) |-> documents[Nth(k)]]

\* line 112: LocalCrossEncoderReranker(top_n=4)
BuildReranker(loads, model) == RerankerInit(TOP_N, loads, model)

\* one rephrased question is searched: lexical and semantic are what the two
\* retrievers give for it
SearchVariant(lexical, semantic) ==
    /\ rr_op = "init"
    /\ fz_op \in {"init", "searched"}
    /\ fz_searched < Len(Rephrased)
    /\ fz_lexical' = lexical
    /\ fz_semantic' = semantic
    /\ fz_fused' = WeightedReciprocalRank(<<lexical, semantic>>)
    /\ fz_documents' = fz_documents \o fz_fused'
    /\ fz_searched' = fz_searched + 1
    /\ fz_op' = "searched"
    /\ UNCHANGED <<fz_refused, fz_found>>
    /\ UNCHANGED <<chunkerVars, rerankVars, storeVars, uiVars, demoVars>>

\* the language model gave no further question: the gathered documents
\* are made unique
GatherFound ==
    /\ rr_op = "init"
    /\ fz_op \in {"init", "searched"}
    /\ fz_found' = UniqueUnion(fz_documents)
    /\ fz_op' = "gathered"
    /\ UNCHANGED <<fz_lexical, fz_semantic, fz_fused, fz_refused, fz_documents,
                   fz_searched>>
    /\ UNCHANGED <<chunkerVars, rerankVars, storeVars, uiVars, demoVars>>

\* lines 115-118: the found documents go to the reranker with the question
CompressFound(query) ==
    /\ fz_op = "gathered"
    /\ rr_op' = "retrieve"
    /\ RetrieveEffect(fz_found, query)
    /\ fz_op' = "reranked"
    /\ UNCHANGED <<fz_lexical, fz_semantic, fz_fused, fz_refused, fz_documents,
                   fz_searched, fz_found>>
    /\ UNCHANGED <<chunkerVars, storeVars, uiVars, demoVars>>

NextPipeline ==
    \/ \E loads \in BOOLEAN, model \in [Queries \X Passages -> Scores] :
          BuildReranker(loads, model)
    \/ \E lexical \in RetrieverResults(PipelineIndex),
          semantic \in RetrieverResults(PipelineIndex) :
          SearchVariant(lexical, semantic)
    \/ GatherFound
    \/ \E query \in Queries : CompressFound(query)

(***************************************************************************)
(* The Streamlit application (ui/streamlit_app.py) and the retriever       *)
(* construction it calls (rag/retrieval.py, get_advanced_retriever).       *)
(* Every browser session runs the script with its own st.session_state;    *)
(* all sessions share the process and the persisted Chroma collection.     *)
(***************************************************************************)
Sessions == {"s1", "s2"}

\* utils/config.py: the keys of OLLAMA_MODELS and DEFAULT_MODEL
ModelKeys == {"Mistral", "Llama2"}
DEFAULT_MODEL == "Mistral"

Prompts == {"q1"}

MaxRuns == 3

\* files the uploader can hold, and what process_pdf returns for each: a file
\* without extractable content (or unreadable) gives [], the two policies
\* give their chunks, numbered from chunk_0 in each document
Uploads == {"blank.pdf", "policyA.pdf", "policyB.pdf"}

ProcessPdfResult(file) ==
    CASE file = "policyA.pdf" ->
            << MakeChunk(<<"a">>, PyInt(1), ChunkIdStr(0), General),
               MakeChunk(<<"b">>, NA, ChunkIdStr(1), General) >>
      [] file = "policyB.pdf" ->
            << MakeChunk(<<"a">>, PyInt(1), ChunkIdStr(0), Introduction) >>
      [] OTHER -> <<>>

NoEvent == [kind |-> "rerun", prompt |-> "", file |-> ""]
ChatEvent(prompt) == [kind |-> "chat", prompt |-> prompt, file |-> ""]
ProcessEvent(file) == [kind |-> "process", prompt |-> "", file |-> file]
Events == {NoEvent} \cup {ChatEvent(p) : p \in Prompts}
                   \cup {ProcessEvent(f) : f \in Uploads}

\* st.session_state.rag_chain: None, or the chain with the retriever it holds
NoChain == [kind |-> "None", corpus |-> <<>>, model_key |-> "", reranker |-> "None"]

NoQuery == [session |-> "", prompt |-> "", outcome |-> "none", error |-> "none",
            expansion |-> "none", variants |-> <<>>, corpus |-> <<>>,
            index |-> <<>>]

NotReadyText == "The assistant is not ready. Please ensure a document has been processed."

InitUI ==
    /\ phase = [s \in Sessions |-> "new"]
    /\ event = [s \in Sessions |-> NoEvent]
    /\ messages = [s \in Sessions |-> <<>>]
    /\ selected_model = [s \in Sessions |-> DEFAULT_MODEL]
    /\ rag_chain = [s \in Sessions |-> NoChain]
    /\ memory = [s \in Sessions |-> <<>>]
    /\ pending_rerun = [s \in Sessions |-> FALSE]
    /\ embedding_loads = 0
    /\ cross_encoder_loads = 0
    /\ last_query = NoQuery
    /\ ui_op = [op |-> "none", session |-> ""]
    /\ runs = 0

\* where the script goes after the chat tab's chain initialisation
PhaseAfterInit(ev) ==
    CASE ev.kind = "chat" -> "chat"
      [] ev.kind = "process" -> "tab2"
      [] OTHER -> "idle"

\* retrieval.py lines 73-120: get_advanced_retriever on the stored documents.
\* With no documents it returns None before any model is built; otherwise it
\* builds the BM25 retriever from all_docs, a new embedding function and a
\* new LocalCrossEncoderReranker, whose model loads or not
AdvancedRetriever(all_docs, model_key, loads) ==
    IF all_docs = <<>> THEN NoChain
    ELSE [kind |-> "chain", corpus |-> all_docs, model_key |-> model_key,
          reranker |-> IF loads THEN "loaded" ELSE "None"]

\* streamlit_app.py lines 30-42: the first script run of a session fills its
\* session state; VectorStoreManager() builds an embedding function
\* (vector_store.py lines 20-23). The selectbox shows the default model, so
\* the run goes on to the chat tab.
SessionInit(s) ==
    /\ phase[s] = "new"
    /\ messages' = [messages EXCEPT ![s] = <<>>]
    /\ selected_model' = [selected_model EXCEPT ![s] = DEFAULT_MODEL]
    /\ rag_chain' = [rag_chain EXCEPT ![s] = NoChain]
    /\ memory' = [memory EXCEPT ![s] = <<>>]
    /\ embedding_loads' = embedding_loads + 1
    /\ event' = [event EXCEPT ![s] = NoEvent]
    /\ phase' = [phase EXCEPT ![s] = "tab1"]
    /\ ui_op' = [op |-> "session_init", session |-> s]
    /\ UNCHANGED <<pending_rerun, cross_encoder_loads, last_query, runs>>
    /\ UNCHANGED <<chunkerVars, rerankVars, storeVars, fusionVars, demoVars>>

\* lines 47-54: the selectbox holds another model than the session's: the
\* model is taken, the chain dropped, and st.rerun() ends the script run
ChangeModel(s, m) ==
    /\ phase[s] = "idle"
    /\ ~pending_rerun[s]
    /\ runs < MaxRuns
    /\ selected_model[s] # m
    /\ selected_model' = [selected_model EXCEPT ![s] = m]
    /\ rag_chain' = [rag_chain EXCEPT ![s] = NoChain]
    /\ pending_rerun' = [pending_rerun EXCEPT ![s] = TRUE]
    /\ ui_op' = [op |-> "change_model", session |-> s]
    /\ runs' = runs + 1
    /\ UNCHANGED <<phase, event, messages, memory, embedding_loads,
                   cross_encoder_loads, last_query>>
    /\ UNCHANGED <<chunkerVars, rerankVars, storeVars, fusionVars, demoVars>>

\* a script run with the selectbox left alone: after st.rerun() it carries no
\* widget event, otherwise the event the user gave (a chat prompt, or the
\* click on "Process and Vectorize Document" with a file in the uploader)
BeginRun(s, ev) ==
    /\ phase[s] = "idle"
    /\ IF pending_rerun[s]
       THEN ev = NoEvent /\ UNCHANGED runs
       ELSE runs < MaxRuns /\ runs' = runs + 1
    /\ ev.kind = "process" =>
          Len(collection) + Len(ProcessPdfResult(ev.file)) <= MaxStored
    /\ pending_rerun' = [pending_rerun EXCEPT ![s] = FALSE]
    /\ event' = [event EXCEPT ![s] = ev]
    /\ phase' = [phase EXCEPT ![s] = "tab1"]
    /\ ui_op' = [op |-> "begin_run", session |-> s]
    /\ UNCHANGED <<messages, selected_model, rag_chain, memory, embedding_loads,
                   cross_encoder_loads, last_query>>
    /\ UNCHANGED <<chunkerVars, rerankVars, storeVars, fusionVars, demoVars>>

\* lines 71-86: the chat tab builds the chain when the session has none
InitChain(s, loads) ==
    /\ phase[s] = "tab1"
    /\ IF rag_chain[s] = NoChain
       THEN LET all_docs == AllDocuments(collection)
                advanced_retriever ==
                    AdvancedRetriever(all_docs, selected_model[s], loads)
            IN  /\ rag_chain' = [rag_chain EXCEPT ![s] = advanced_retriever]
                /\ IF all_docs = <<>>
                   THEN UNCHANGED <<embedding_loads, cross_encoder_loads>>
                   ELSE /\ embedding_loads' = embedding_loads + 1
                        /\ cross_encoder_loads' = cross_encoder_loads + 1
       ELSE UNCHANGED <<rag_chain, embedding_loads, cross_encoder_loads>>
    /\ phase' = [phase EXCEPT ![s] = PhaseAfterInit(event[s])]
    /\ ui_op' = [op |-> "init_chain", session |-> s]
    /\ UNCHANGED <<event, messages, selected_model, memory, pending_rerun,
                   last_query, runs>>
    /\ UNCHANGED <<chunkerVars, rerankVars, storeVars, fusionVars, demoVars>>

\* the queries the MultiQueryRetriever of retrieval.py lines 107-109 searches
\* with: the lines the language model gave; the original question is not
\* among them (include_original is left at its default)
GenerateQueries(prompt, expansion) ==
    IF expansion = "some" THEN Rephrased ELSE <<>>

\* rag_chain.invoke of line 102 on the chain built by lines 74-83: the outcome
\* of the retrieval pipeline of retrieval.py lines 84-118. chain.corpus is
\* the BM25 corpus taken when the chain was built; the Chroma retriever reads
\* the collection as it is now.
Invoke(s, chain, prompt, expansion) ==
    LET base == [session |-> s, prompt |-> prompt, expansion |-> expansion,
                 corpus |-> chain.corpus, index |-> AllDocuments(collection),
                 variants |-> GenerateQueries(prompt, expansion),
                 outcome |-> "answered", error |-> "none"]
    IN  IF expansion = "unavailable"
        THEN [base EXCEPT !.outcome = "raised", !.error = "LLMUnavailable"]
        ELSE IF base.variants # <<>> /\ chain.reranker = "None"
        THEN [base EXCEPT !.outcome = "raised", !.error = "RuntimeError"]
        ELSE base

\* lines 88-109: a chat prompt is appended, answered by the chain when the
\* session has one and by the fixed warning otherwise. An exception of
\* invoke ends the script run before the assistant's message is appended.
ChatTurn(s, expansion) ==
    /\ phase[s] = "chat"
    /\ LET prompt == event[s].prompt
           asked  == Append(messages[s], [role |-> "user", content |-> prompt])
       IN  IF rag_chain[s] # NoChain
           THEN LET q == Invoke(s, rag_chain[s], prompt, expansion)
                IN  /\ last_query' = q
                    /\ IF q.outcome = "raised"
                       THEN /\ messages' = [messages EXCEPT ![s] = asked]
                            /\ UNCHANGED memory
                       ELSE /\ messages' = [messages EXCEPT ![s] =
                                  Append(asked, [role |-> "assistant",
                                                 content |-> "answer"])]
                            /\ memory' = [memory EXCEPT ![s] =
                                  Append(@, [input |-> prompt, output |-> "answer"])]
           ELSE /\ last_query' = [NoQuery EXCEPT !.session = s, !.prompt = prompt,
                                     !.outcome = "not_ready",
                                     !.index = AllDocuments(collection)]
                /\ messages' = [messages EXCEPT ![s] =
                      Append(asked, [role |-> "assistant", content |-> NotReadyText])]
                /\ UNCHANGED memory
    /\ phase' = [phase EXCEPT ![s] = "idle"]
    /\ ui_op' = [op |-> "chat", session |-> s]
    /\ UNCHANGED <<event, selected_model, rag_chain, pending_rerun,
                   embedding_loads, cross_encoder_loads, runs>>
    /\ UNCHANGED <<chunkerVars, rerankVars, storeVars, fusionVars, demoVars>>

\* the session state after lines 131-133
ResetSession_keepsMessages(s) ==
    /\ rag_chain' = [rag_chain EXCEPT ![s] = NoChain]
    /\ memory' = [memory EXCEPT ![s] = <<>>]
    /\ UNCHANGED messages

\* lines 130-133: the chain, the messages and the memory are reset
ResetSession(s) ==
    /\ rag_chain' = [rag_chain EXCEPT ![s] = NoChain]
    /\ messages' = [messages EXCEPT ![s] = <<>>]
    /\ memory' = [memory EXCEPT ![s] = <<>>]

\* lines 124-137: "Process and Vectorize Document" was clicked
ProcessDocument(s) ==
    /\ phase[s] = "tab2"
    /\ LET new_chunks == ProcessPdfResult(event[s].file)
       IN  IF new_chunks # <<>>
           THEN /\ collection' = AfterAdd(collection, new_chunks, next_uuid)
                /\ next_uuid' = next_uuid + Len(new_chunks)
                /\ vs_op' = "add_documents"
                /\ vs_arg' = new_chunks
                /\ vs_out' = <<>>
                /\ ResetSession(s)
                /\ pending_rerun' = [pending_rerun EXCEPT ![s] = TRUE]
           ELSE /\ UNCHANGED storeVars
                /\ UNCHANGED <<rag_chain, messages, memory, pending_rerun>>
    /\ phase' = [phase EXCEPT ![s] = "idle"]
    /\ ui_op' = [op |-> "process", session |-> s]
    /\ UNCHANGED <<event, selected_model, embedding_loads, cross_encoder_loads,
                   last_query, runs>>
    /\ UNCHANGED <<chunkerVars, rerankVars, fusionVars, demoVars>>

NextUI ==
    \/ \E s \in Sessions : SessionInit(s)
    \/ \E s \in Sessions, m \in ModelKeys : ChangeModel(s, m)
    \/ \E s \in Sessions, ev \in Events : BeginRun(s, ev)
    \/ \E s \in Sessions, loads \in BOOLEAN : InitChain(s, loads)
    \/ \E s \in Sessions, expansion \in Expansions : ChatTurn(s, expansion)
    \/ \E s \in Sessions : ProcessDocument(s)

(***************************************************************************)
(* The console demo (simple_demo.py, run_advanced_demo). Runs do not       *)
(* overlap; every run is a new process on the persisted collection.        *)
(***************************************************************************)
MaxDemoRuns == 3

InitDemo ==
    /\ demo_pc = "idle"
    /\ demo_files = {}
    /\ demo_chain = NoChain
    /\ demo_outcome = "none"
    /\ demo_ingested = <<>>
    /\ demo_runs = 0

\* between runs a PDF is put into DOCS_DIR
PlaceFile(f) ==
    /\ demo_pc = "idle"
    /\ f \notin demo_files
    /\ demo_files' = demo_files \cup {f}
    /\ UNCHANGED <<demo_pc, demo_chain, demo_outcome, demo_ingested, demo_runs>>
    /\ UNCHANGED <<chunkerVars, rerankVars, storeVars, uiVars, fusionVars>>

\* every run ingests, whatever the collection holds
MustIngest_always(status) == TRUE

\* line 31: `if collection_status.get('count', 0) == 0`
MustIngest(status) == status.count = 0

\* lines 25-26: the run starts and builds its VectorStoreManager
DemoStart ==
    /\ demo_pc = "idle"
    /\ demo_runs < MaxDemoRuns
    /\ demo_runs' = demo_runs + 1
    /\ demo_chain' = NoChain
    /\ demo_outcome' = "running"
    /\ demo_pc' = "status"
    /\ UNCHANGED <<demo_files, demo_ingested>>
    /\ UNCHANGED <<chunkerVars, rerankVars, storeVars, uiVars, fusionVars>>

\* lines 30-31: the collection status is read and decides on the ingestion
DemoReadStatus ==
    /\ demo_pc = "status"
    /\ demo_pc' = IF MustIngest(CollectionStatus(collection))
                  THEN "ingest" ELSE "chain"
    /\ UNCHANGED <<demo_files, demo_chain, demo_outcome, demo_ingested, demo_runs>>
    /\ UNCHANGED <<chunkerVars, rerankVars, storeVars, uiVars, fusionVars>>

\* lines 32-37: the collection is empty and DOCS_DIR holds no PDF
DemoNoPdf ==
    /\ demo_pc = "ingest"
    /\ demo_files = {}
    /\ demo_outcome' = "no_pdf"
    /\ demo_pc' = "idle"
    /\ UNCHANGED <<demo_files, demo_chain, demo_ingested, demo_runs>>
    /\ UNCHANGED <<chunkerVars, rerankVars, storeVars, uiVars, fusionVars>>

\* lines 39-46: policy_files[0], whichever file iterdir lists first, is
\* processed; its chunks are added, and without chunks the run ends
DemoIngest(pdf_path) ==
    /\ demo_pc = "ingest"
    /\ pdf_path \in demo_files
    /\ LET new_chunks == ProcessPdfResult(pdf_path)
       IN  IF new_chunks # <<>>
           THEN /\ collection' = AfterAdd(collection, new_chunks, next_uuid)
                /\ next_uuid' = next_uuid + Len(new_chunks)
                /\ vs_op' = "add_documents"
                /\ vs_arg' = new_chunks
                /\ vs_out' = <<>>
                /\ demo_ingested' = Append(demo_ingested,
                                      [file |-> pdf_path, run |-> demo_runs])
                /\ demo_pc' = "chain"
                /\ UNCHANGED demo_outcome
           ELSE /\ UNCHANGED storeVars
                /\ UNCHANGED demo_ingested
                /\ demo_outcome' = "no_chunks"
                /\ demo_pc' = "idle"
    /\ UNCHANGED <<demo_files, demo_chain, demo_runs>>
    /\ UNCHANGED <<chunkerVars, rerankVars, uiVars, fusionVars>>

\* lines 47-49: an exception of the status read or of the directory listing
\* ends the run
DemoError ==
    /\ demo_pc \in {"status", "ingest"}
    /\ demo_outcome' = "error"
    /\ demo_pc' = "idle"
    /\ UNCHANGED <<demo_files, demo_chain, demo_ingested, demo_runs>>
    /\ UNCHANGED <<chunkerVars, rerankVars, storeVars, uiVars, fusionVars>>

\* lines 51-60: get_rag_chain; without a chain the run ends
DemoBuildChain(loads) ==
    /\ demo_pc = "chain"
    /\ LET rag_chain_built ==
               AdvancedRetriever(AllDocuments(collection), DEFAULT_MODEL, loads)
       IN  /\ demo_chain' = rag_chain_built
           /\ IF rag_chain_built = NoChain
              THEN demo_outcome' = "no_chain" /\ demo_pc' = "idle"
              ELSE UNCHANGED demo_outcome /\ demo_pc' = "loop"
    /\ UNCHANGED <<demo_files, demo_ingested, demo_runs>>
    /\ UNCHANGED <<chunkerVars, rerankVars, storeVars, uiVars, fusionVars>>

\* lines 62-97: the question loop ends, by 'exit' or by an exception of
\* rag_chain.invoke, which the loop does not catch
DemoFinish(how) ==
    /\ demo_pc = "loop"
    /\ demo_outcome' = how
    /\ demo_pc' = "idle"
    /\ UNCHANGED <<demo_files, demo_chain, demo_ingested, demo_runs>>
    /\ UNCHANGED <<chunkerVars, rerankVars, storeVars, uiVars, fusionVars>>

NextDemo ==
    \/ \E f \in Uploads : PlaceFile(f)
    \/ DemoStart
    \/ DemoReadStatus
    \/ DemoNoPdf
    \/ \E pdf_path \in Uploads : DemoIngest(pdf_path)
    \/ DemoError
    \/ \E loads \in BOOLEAN : DemoBuildChain(loads)
    \/ \E how \in {"finished", "crashed"} : DemoFinish(how)

(***************************************************************************)
(* Specifications                                                          *)
(***************************************************************************)
\* the chunker with no file given to it
ChunkerIdle == InitChunker /\ ~file_exists

\* the pipeline with nothing retrieved
FusionIdle == InitFusion /\ fz_lexical = <<>> /\ fz_semantic = <<>>

InitSpecChunker == InitChunker /\ InitRerank /\ InitStore /\ InitUI /\ FusionIdle /\ InitDemo
InitSpecRerank == ChunkerIdle /\ InitRerank /\ InitStore /\ InitUI /\ FusionIdle /\ InitDemo
InitSpecStore == ChunkerIdle /\ InitRerank /\ InitStore /\ InitUI /\ FusionIdle /\ InitDemo
InitSpecUI == ChunkerIdle /\ InitRerank /\ InitStore /\ InitUI /\ FusionIdle /\ InitDemo

\* process_pdf on every document of Documents, found or missing
SpecChunker == InitSpecChunker /\ [][NextChunker]_vars

\* a reranker is built and called
SpecRerank == InitSpecRerank /\ [][NextRerank]_vars

\* the vector store takes adds and reads
SpecStore == InitSpecStore /\ [][NextStore]_vars

\* the fusion on every pair of result lists, and on its own output
InitSpecFusion == ChunkerIdle /\ InitRerank /\ InitStore /\ InitUI /\ InitFusion /\ InitDemo
SpecFusion == InitSpecFusion /\ [][NextFusion]_vars

\* one question goes through the retrieval pipeline
InitSpecPipeline == ChunkerIdle /\ InitRerank /\ InitStore /\ InitUI /\ FusionIdle /\ InitDemo
SpecPipeline == InitSpecPipeline /\ [][NextPipeline]_vars

\* console demo runs, one after the other, on the persisted collection
InitSpecDemo == ChunkerIdle /\ InitRerank /\ InitStore /\ InitUI /\ FusionIdle /\ InitDemo
SpecDemo == InitSpecDemo /\ [][NextDemo]_vars

\* browser sessions run the Streamlit script on the shared collection
SpecUI == InitSpecUI /\ [][NextUI]_vars

(***************************************************************************)
(* Properties of the reranker (checked under SpecRerank)                   *)
(***************************************************************************)
Reranked == rr_op \in {"compress_documents", "retrieve"}

ScoreOf(doc) == score_of[<<rr_query, doc.page_content>>]

Least(a, b) == IF a <= b THEN a ELSE b

\* C1: with a loaded model and a non-empty candidate sequence,
\* compress_documents returns min(top_n, number of candidates) documents,
\* in non-increasing order of their cross-encoder score.
C1_AtMostTopNSortedDesc ==
    (rr_op = "compress_documents" /\ cross_encoder = "loaded" /\ rr_documents # <<>>)
    => /\ rr_raised = "none"
       /\ Len(rr_result) = Least(top_n, Len(rr_documents))
       /\ Len(rr_result) <= top_n
       /\ \A i \in 1..(Len(rr_result) - 1) :
              ScoreOf(rr_result[i]) >= ScoreOf(rr_result[i + 1])

\* more candidates than top_n = 4, given in ascending score order
C1_Witness ==
    /\ rr_op = "compress_documents"
    /\ cross_encoder = "loaded"
    /\ top_n = TOP_N
    /\ Len(rr_documents) > top_n
    /\ Len(rr_result) = top_n
    /\ ScoreOf(rr_documents[1]) < ScoreOf(rr_documents[Len(rr_documents)])
    /\ ScoreOf(rr_result[1]) > ScoreOf(rr_result[top_n])

\* C2 as stated: a reranker whose model failed to load fails on every call
\* of compress_documents and of retrieve.
C2_FailsOnEveryCall ==
    (Reranked /\ cross_encoder = "None") => rr_raised = "RuntimeError"

\* C2 as amended: a reranker whose model failed to load raises on every call
\* with at least one candidate and returns no document then; with no
\* candidate the call returns an empty list and raises nothing.
C2_FailsOnEveryNonEmptyCall ==
    (Reranked /\ cross_encoder = "None")
    => /\ rr_result = <<>>
       /\ (rr_documents # <<>> => rr_raised = "RuntimeError")
       /\ (rr_documents = <<>> => rr_raised = "none")

C2_Witness ==
    /\ rr_op = "retrieve"
    /\ cross_encoder = "None"
    /\ Len(rr_documents) >= 2
    /\ rr_raised = "RuntimeError"

\* C3: on an empty candidate sequence compress_documents returns an empty
\* result, raises nothing and never invokes predict, whatever the query,
\* top_n and the state of the model.
C3_EmptyInputNoPredict ==
    (Reranked /\ rr_documents = <<>>)
    => /\ rr_result = <<>>
       /\ rr_raised = "none"
       /\ predict_calls = 0

C3_Witness ==
    /\ rr_op = "compress_documents"
    /\ cross_encoder = "loaded"
    /\ top_n = TOP_N
    /\ rr_documents = <<>>
    /\ rr_result = <<>>

\* the place the k-th candidate holds in the stable descending-score sort of
\* the candidates: behind every candidate of higher score and every earlier
\* candidate of the same score
StablePlace(k) ==
    1 + Cardinality({j \in 1..Len(rr_documents) :
            \/ ScoreOf(rr_documents[j]) > ScoreOf(rr_documents[k])
            \/ /\ ScoreOf(rr_documents[j]) = ScoreOf(rr_documents[k])
               /\ j < k})

\* C19: with a loaded model the result is exactly the first top_n elements of
\* the stable descending-score sort of the input: each place of the result
\* holds the candidate that sort puts there, so every returned document is
\* an input candidate, none is returned more often than it was passed, and
\* candidates of equal score keep their input order.
C19_TopNOfStableSort ==
    (Reranked /\ cross_encoder = "loaded" /\ rr_documents # <<>>)
        => /\ rr_raised = "none"
           /\ Len(rr_result) = Least(top_n, Len(rr_documents))
           /\ \A k \in 1..Len(rr_documents) :
                 StablePlace(k) <= top_n
                     => rr_result[StablePlace(k)] = rr_documents[k]

\* two different chunks of equal text, hence equal score, were passed behind
\* a chunk of lower score; both are returned in front of it, in input order,
\* and the candidates did not all fit in top_n
C19_Witness ==
    /\ rr_op = "compress_documents"
    /\ cross_encoder = "loaded"
    /\ Len(rr_documents) > top_n
    /\ top_n >= 3
    /\ ScoreOf(rr_documents[1]) < ScoreOf(rr_documents[2])
    /\ rr_documents[2] # rr_documents[3]
    /\ rr_documents[2].page_content = rr_documents[3].page_content
    /\ rr_result[1] = rr_documents[2]
    /\ rr_result[2] = rr_documents[3]

(***************************************************************************)
(* Properties of process_pdf (checked under SpecChunker)                   *)
(***************************************************************************)
Processed == pc = "done" /\ logged = "processed"

RECURSIVE ParseDecimal(_)
\* int(digits)
ParseDecimal(digits) ==
    IF digits = <<>> THEN 0
    ELSE LET last == digits[Len(digits)]
             v    == CHOOSE n \in 0..9 : Decimal(n) = <<last>>
         IN  10 * ParseDecimal(SubSeq(digits, 1, Len(digits) - 1)) + v

ChunkPrefix == <<"c","h","u","n","k","_">>

\* the number a chunk id "chunk_<n>" carries
ChunkNumber(id) == ParseDecimal(Slice(id, Len(ChunkPrefix) + 1, Len(id)))

\* C4: within one run the chunk ids are chunk_0, chunk_1, ... in output
\* order: pairwise distinct, strictly increasing, without gaps, whatever
\* sections the chunks come from and whichever sections were skipped.
C4_ChunkIdsIncreasing ==
    /\ \A i \in 1..Len(doc_chunks) :
          LET id == doc_chunks[i].metadata.chunk_id
          IN  /\ Prefix(id, Len(ChunkPrefix)) = ChunkPrefix
              /\ Len(id) > Len(ChunkPrefix)
              /\ ChunkNumber(id) = i - 1
    /\ \A i, j \in 1..Len(doc_chunks) :
          i < j => /\ doc_chunks[i].metadata.chunk_id # doc_chunks[j].metadata.chunk_id
                   /\ ChunkNumber(doc_chunks[i].metadata.chunk_id)
                        < ChunkNumber(doc_chunks[j].metadata.chunk_id)
    /\ (Processed => returned = doc_chunks)

\* a run that skipped the empty Introduction and then took chunks from two
\* later sections
C4_Witness ==
    /\ Processed
    /\ Len(content_list) >= 3
    /\ IsBlank(content_list[1].text)
    /\ Len(returned) >= 2
    /\ returned[Len(returned)].metadata.chunk_id = ChunkIdStr(Len(returned) - 1)

\* C5: when an error occurs anywhere in the try block, also after chunks were
\* built, process_pdf returns an empty sequence and raises nothing.
C5_ErrorYieldsEmpty ==
    logged = "unexpected_error"
    => /\ pc = "done"
       /\ returned = <<>>
       /\ raised = "none"

\* an error after chunks of an earlier section were built
C5_Witness ==
    /\ logged = "unexpected_error"
    /\ sec_idx >= 2
    /\ Len(doc_chunks) >= 1
    /\ returned = <<>>

\* what the caller of a run on a readable document without content gets
EmptySuccessOutcome == [returned |-> <<>>, raised |-> "none"]

\* C6 as stated: chunking a missing file ends in an outcome for the caller
\* that differs from the one of a document without extractable content.
C6_NotFoundIsDistinctOutcome ==
    (pc = "done" /\ ~file_exists)
    => [returned |-> returned, raised |-> raised] # EmptySuccessOutcome

\* C6 as amended: chunking a missing file returns an empty sequence and
\* raises nothing; only the logged message says that the file was not found.
C6_NotFoundReturnsEmpty ==
    (pc = "done" /\ ~file_exists)
    => /\ returned = <<>>
       /\ raised = "none"
       /\ logged = "file_not_found"

C6_Witness ==
    /\ pc = "done"
    /\ ~file_exists
    /\ logged = "file_not_found"

\* the file is there and no page of it gives text
NoTextDocument ==
    /\ file_exists
    /\ \A i \in 1..Len(pdf_pages) : pdf_pages[i] = NoText

\* C7: for a readable document none of whose pages yields text, process_pdf
\* runs to its normal return without needing the error path, builds no chunk
\* (no empty 'General' chunk either) and returns an empty sequence.
C7_NoTextYieldsEmpty ==
    NoTextDocument
    => /\ doc_chunks = <<>>
       /\ chunks = <<>>
       /\ pc # "chunks"
       /\ (pc = "done" => returned = <<>> /\ raised = "none")
       /\ ((pc = "done" /\ logged # "unexpected_error") => logged = "processed")
       /\ (pc # "done" =>
              ENABLED (OpenFile \/ ExtractPage \/ SplitSections
                         \/ NextSection \/ ReturnChunks))

C7_Witness ==
    /\ NoTextDocument
    /\ Len(pdf_pages) >= 2
    /\ Processed
    /\ content_list = << [title |-> General, text |-> <<>>] >>
    /\ returned = <<>>

RECURSIVE HeaderMatchesFrom(_, _)
\* the header matches at or after `from`, in order: each [p, q] is the index
\* of the header's first character and of the newline that ends it
HeaderMatchesFrom(t, from) ==
    LET p == FirstHeader(t, from)
    IN  IF p = 0 THEN <<>>
        ELSE <<[p |-> p, q |-> HeaderEnd(t, p)]>>
                 \o HeaderMatchesFrom(t, HeaderEnd(t, p) + 1)

HeaderMatches(t) == HeaderMatchesFrom(t, 1)

\* where text occurs in t
Occurrences(t, text) ==
    {x \in 1..(Len(t) - Len(text) + 1) :
        /\ t[x] = text[1]
        /\ t[x + Len(text) - 1] = text[Len(text)]
        /\ SubSeq(t, x, x + Len(text) - 1) = text}

\* the section label in force at index x of t: the trimmed header that most
\* recently ends before x, 'Introduction' before the first header,
\* 'General' when t has no header
LabelAt(t, ms, x) ==
    IF ms = <<>> THEN General
    ELSE LET before == {k \in 1..Len(ms) : ms[k].q < x}
         IN  IF before = {} THEN Introduction
             ELSE Strip(SubSeq(t, ms[Max(before)].p, ms[Max(before)].q - 1))

PagesHolding(chunk_text) ==
    {k \in 1..Len(pages_content) : Contains(pages_content[k].text, chunk_text)}

C9_WitnessNA ==
    /\ Processed
    /\ \E i \in 1..Len(returned) :
          /\ Len(returned[i].page_content) > PAGE_PROBE_LEN
          /\ returned[i].metadata.page = NA

(***************************************************************************)
(* Properties of the vector store (checked under SpecStore)                *)
(***************************************************************************)
\* C10: add_documents is additive only: the count grows by the number of
\* documents passed, every document stored before is still returned by
\* get_all_documents, in place, followed by the added documents (none is
\* dropped for having a chunk_id that is already stored), and an empty list
\* leaves the collection as it is.
C10_AddIsAdditive ==
    [][vs_op' = "add_documents"
         => LET before == AllDocuments(collection)
                after  == AllDocuments(collection')
            IN  /\ CollectionStatus(collection').count
                      = CollectionStatus(collection).count + Len(vs_arg')
                /\ Len(after) = Len(before) + Len(vs_arg')
                /\ SubSeq(after, 1, Len(before)) = before
                /\ SubSeq(after, Len(before) + 1, Len(after)) = vs_arg'
                /\ (vs_arg' = <<>> => collection' = collection)]_vars

\* the chunks of one document were added twice: the corpus holds them twice
C10_Witness ==
    /\ vs_op = "add_documents"
    /\ Len(vs_arg) = 2
    /\ vs_arg[1].metadata.chunk_id # vs_arg[2].metadata.chunk_id
    /\ AllDocuments(collection) = vs_arg \o vs_arg
    /\ CollectionStatus(collection).count = 2 * Len(vs_arg)

(***************************************************************************)
(* Properties of the Streamlit application (checked under SpecUI)          *)
(***************************************************************************)
\* the script run of session s has just processed a document that gave chunks
ProcessedWithChunks(s) ==
    /\ ui_op = [op |-> "process", session |-> s]
    /\ ProcessPdfResult(event[s].file) # <<>>

\* C11: after a successful "Process and Vectorize Document" action the Index
\* holds exactly the chunks of the newly processed document and none of the
\* chunks stored before it (the database is replaced).
C11_ProcessReplacesDatabase ==
    \A s \in Sessions :
        ProcessedWithChunks(s)
            => AllDocuments(collection) = ProcessPdfResult(event[s].file)

\* C12: a query is never answered by a retriever whose lexical (BM25) corpus
\* differs from the Index's contents at the time of the query, whichever
\* session changed the Index.
C12_QueryUsesCurrentCorpus ==
    last_query.outcome = "answered" => last_query.corpus = last_query.index

\* a chat turn reached the retrieval pipeline of a chain
Queried == last_query.outcome \in {"answered", "raised"}

\* C13: when query expansion fails (the language model is unavailable), the
\* retrieval does not fail: the original query is searched as the sole
\* variant and the query is answered.
C13_ExpansionFailureFallsBack ==
    (Queried /\ last_query.expansion = "unavailable")
        => /\ last_query.outcome = "answered"
           /\ last_query.variants = <<last_query.prompt>>

\* C14: with an empty Index a query is served by a retrieval pipeline that
\* returns an empty sequence of passages and raises nothing: the caller gets
\* an empty evidence set, not a missing pipeline and not an error.
C14_EmptyIndexGivesEmptyEvidence ==
    (last_query.outcome # "none" /\ last_query.index = <<>>)
        => /\ last_query.outcome = "answered"
           /\ last_query.error = "none"

\* C17: the embedding model and the cross-encoder model are each loaded
\* at most once in the process: no retriever construction, model change or
\* ingestion loads either of them again.
C17_ModelsLoadedOnce ==
    /\ embedding_loads <= 1
    /\ cross_encoder_loads <= 1

Range(l) == {l[i] : i \in 1..Len(l)}

PlaceOf(l, d) == CHOOSE i \in 1..Len(l) : l[i] = d

TimesIn(l, d) == Cardinality({i \in 1..Len(l) : l[i] = d})

\* the combined score the fusion gave to the chunk d
CombinedScore(d) == RrfScore(<<fz_lexical, fz_semantic>>, d.page_content)

\* C15: with equal weights a chunk present in both the lexical and the
\* semantic result list appears exactly once in the fused output, its
\* combined score is at least each of its two individual scores, and the
\* fused output is ordered by descending combined score.
C15_SharedChunkOnceCombinedScore ==
    fz_op = "fused" =>
        /\ \A d \in Range(fz_lexical) \cap Range(fz_semantic) :
              /\ TimesIn(fz_fused, d) = 1
              /\ CombinedScore(d) >= RankScore(Weights[1], PlaceOf(fz_lexical, d))
              /\ CombinedScore(d) >= RankScore(Weights[2], PlaceOf(fz_semantic, d))
        /\ \A i, j \in 1..Len(fz_fused) :
              i < j => CombinedScore(fz_fused[i]) >= CombinedScore(fz_fused[j])

\* C18: the fusion is idempotent under re-fusing its own output: for all
\* result lists A and B, fusing F = fuse(A, B) with itself gives F again,
\* the same chunks in the same order.
C18_RefuseIsIdentity ==
    fz_op = "refused" => fz_refused = fz_fused

\* two different result lists with a chunk in common and chunks of their own
\* were fused into three chunks, in an order neither list had, and re-fused
C18_Witness ==
    /\ fz_op = "refused"
    /\ Len(fz_fused) = 3
    /\ Range(fz_lexical) \cap Range(fz_semantic) # {}
    /\ Range(fz_lexical) \ Range(fz_semantic) # {}
    /\ Range(fz_semantic) \ Range(fz_lexical) # {}
    /\ fz_fused[1] # fz_lexical[1]
    /\ fz_refused = fz_fused

(***************************************************************************)
(* Properties of the retrieval pipeline (checked under SpecPipeline)       *)
(***************************************************************************)
\* both chunks of the pair are among the documents of l
BothIn(d, e, l) == d \in Range(l) /\ e \in Range(l)

\* C16: two chunks with identical text and different chunk_id are distinct
\* throughout the pipeline: when both are retrieved, both survive the hybrid
\* fusion, both survive the merge across query variants, and both are passed
\* to the reranker, which returns both when top_n allows.
C16_SameTextChunksStayDistinct ==
    \A d, e \in PipelineIndex :
        (d.page_content = e.page_content
            /\ d.metadata.chunk_id # e.metadata.chunk_id)
        => /\ (fz_op = "searched" /\ BothIn(d, e, fz_lexical \o fz_semantic))
                 => BothIn(d, e, fz_fused)
           /\ (fz_op = "gathered" /\ BothIn(d, e, fz_documents))
                 => BothIn(d, e, fz_found)
           /\ (fz_op = "reranked" /\ BothIn(d, e, fz_found))
                 => /\ BothIn(d, e, rr_documents)
                    /\ (rr_raised = "none" /\ Len(rr_documents) <= top_n)
                          => BothIn(d, e, rr_result)

(***************************************************************************)
(* Properties of the console demo (checked under SpecDemo)                 *)
(***************************************************************************)
\* C21: the demo ingests only when the collection count is 0 at start-up:
\* over any sequence of demo runs the Index holds the chunks of at most one
\* ingestion, and a run that finds no PDF or gets no chunks ends without a
\* RAG chain and with the Index as it found it, that is, empty.
C21_DemoIngestsAtMostOnce ==
    /\ Len(demo_ingested) <= 1
    /\ AllDocuments(collection)
          = IF demo_ingested = <<>> THEN <<>>
            ELSE ProcessPdfResult(demo_ingested[1].file)
    /\ demo_outcome \in {"no_pdf", "no_chunks"}
          => /\ demo_chain = NoChain
             /\ collection = <<>>

\* a run after the one that ingested has reached its question loop without
\* ingesting, although DOCS_DIR holds another PDF that gives chunks
C21_Witness ==
    /\ demo_pc = "loop"
    /\ Len(demo_ingested) = 1
    /\ demo_ingested[1].run < demo_runs
    /\ \E g \in demo_files :
          /\ g # demo_ingested[1].file
          /\ ProcessPdfResult(g) # <<>>
    /\ AllDocuments(collection) = ProcessPdfResult(demo_ingested[1].file)

====
